---- MODULE Spec2Model ----
(***************************************************************************)
(* Model of cr_analysis/run_clustering.py (main) and of the read phase and *)
(* report of cr_analysis/analyze_clusters.py (main).                       *)
(*                                                                         *)
(* A run is a walk of pc through the statements of main.  The SQLite store *)
(* (db), the result of the native clustering call and the success of each  *)
(* I/O operation are inputs.  DataFrames are sequences of records, a       *)
(* missing cell (None / NaN) is NULL, a present numeric cell is an exact   *)
(* rational <<numerator, denominator>> in lowest terms.                    *)
(***************************************************************************)
EXTENDS Integers, Sequences, FiniteSets, TLC

VARIABLES
    pc,                  \* the statement main is about to execute
    db,                  \* the SQLite file at DB_PATH: NoDb or its tables
    error,               \* the message printed / exception raised, "none" if none
    deck_to_cluster_map, \* result of cr_deck_cluster.cluster_decks
    conn,                \* the sqlite3 connection: "None", "open", "closed"
    battles_df,
    decks_df,
    card_instances_df,
    card_metadata_df,
    deck_features_df,
    X,
    y,
    X_imputed,
    files,               \* X_train.npy and y_train.npy as left by this run
    master_df,
    card_counts

vars == <<pc, db, error, deck_to_cluster_map, conn, battles_df, decks_df,
          card_instances_df, card_metadata_df, deck_features_df, X, y,
          X_imputed, files, master_df, card_counts>>

-----------------------------------------------------------------------------
(* Bounds of the explored inputs *)

\* most rows of the battles table
MaxBattles == 2
\* instance hashes a deck slot may reference are 1..NumInst
NumInst == 2

(* Program constants *)
NUM_CLUSTERS == 20
\* card_instance_hash_1 .. card_instance_hash_8
NumSlots == 8

-----------------------------------------------------------------------------
(* Cells *)

NULL == <<>>

RECURSIVE GCD(_, _)
GCD(a, b) == IF b = 0 THEN a ELSE GCD(b, a % b)

\* the exact value n/d, d > 0, n >= 0
Rat(n, d) == LET g == GCD(n, d) IN <<n \div g, d \div g>>

\* an integer as a floating point cell
F(v) == <<v, 1>>

RatLeq(a, b) == a[1] * b[2] <= b[1] * a[2]

RatMid(a, b) == Rat(a[1] * b[2] + b[1] * a[2], 2 * a[2] * b[2])

IsNull(c) == c = NULL

-----------------------------------------------------------------------------
(* Sequence helpers *)

Range(s) == {s[i] : i \in DOMAIN s}

RECURSIVE Flatten(_)
Flatten(ss) == IF ss = <<>> THEN <<>> ELSE Head(ss) \o Flatten(Tail(ss))

RECURSIVE Insert(_, _)
Insert(v, s) ==
    IF s = <<>> THEN <<v>>
    ELSE IF RatLeq(v, Head(s)) THEN <<v>> \o s
    ELSE <<Head(s)>> \o Insert(v, Tail(s))

RECURSIVE SortRat(_)
SortRat(s) == IF s = <<>> THEN <<>> ELSE Insert(Head(s), SortRat(Tail(s)))

\* numpy.nanmedian of the observed values of a column (non-empty)
Median(vals) ==
    LET s == SortRat(vals)
        n == Len(s)
    IN IF n % 2 = 1 THEN s[(n + 1) \div 2]
       ELSE RatMid(s[n \div 2], s[n \div 2 + 1])

-----------------------------------------------------------------------------
(* The store: inputs of a run *)

NoDb == [exists |-> FALSE]

DeckHashes == {1, 2, 3}

\* (player_a_deck_hash, player_b_deck_hash) of a match
DeckPairs == << <<1, 2>>, <<2, 3>>, <<3, 1>> >>

\* (player_a_crowns, player_b_crowns) of a match
CrownPairs == << <<3, 1>>, <<0, 2>>, <<1, 1>> >>

\* (a trophies, b trophies, a king tower hp, b king tower hp) of a match
Covariates == << <<F(10), F(20), F(5), F(5)>>,
                 <<F(30), F(20), F(5), F(5)>>,
                 <<NULL,  F(20), F(5), F(5)>> >>

NumOptions == Len(DeckPairs) * Len(CrownPairs) * Len(Covariates)

\* the k-th possible row of the battles table, with primary key id
BattleRow(id, k) ==
    LET dp == DeckPairs[(k % Len(DeckPairs)) + 1]
        k2 == k \div Len(DeckPairs)
        cp == CrownPairs[(k2 % Len(CrownPairs)) + 1]
        cv == Covariates[(k2 \div Len(CrownPairs)) + 1]
    IN [id |-> id,
        player_a_deck_hash |-> dp[1], player_b_deck_hash |-> dp[2],
        player_a_starting_trophies |-> cv[1], player_b_starting_trophies |-> cv[2],
        player_a_king_tower_hit_points |-> cv[3],
        player_b_king_tower_hit_points |-> cv[4],
        player_a_crowns |-> cp[1], player_b_crowns |-> cp[2]]

NonDecreasing(s) == \A i \in DOMAIN s : i = 1 \/ s[i - 1] <= s[i]

\* battles tables of at most MaxBattles rows; the pipeline never looks at the
\* order of the rows, so one order per multiset of rows is explored
BattleTables ==
    {[i \in DOMAIN s |-> BattleRow(i, s[i])] :
        s \in {t \in UNION {[1..n -> 0..(NumOptions - 1)] : n \in 0..MaxBattles} :
                 NonDecreasing(t)}}

InstanceRow(h, lvl, evo) ==
    [instance_hash |-> h, card_type_id |-> h, level |-> lvl, evolution_level |-> evo]

CardMetadata == << [id |-> 1, name |-> "Knight"], [id |-> 2, name |-> "Archers"] >>

\* what the card_instances table may hold for one instance hash
InstanceChoices ==
    {[present |-> FALSE, level |-> NULL, evolution_level |-> NULL]} \cup
    [present : {TRUE}, level : {F(9), F(14)}, evolution_level : {NULL, F(1)}]

\* card_instances tables: instance_hash is the key, one row at most per hash
InstanceTables ==
    {LET all == [h \in 1..NumInst |->
                    [present |-> c[h].present,
                     row |-> InstanceRow(h, c[h].level, c[h].evolution_level)]]
         here == SelectSeq(all, LAMBDA e : e.present)
     IN [i \in DOMAIN here |-> here[i].row] :
        c \in [1..NumInst -> InstanceChoices]}

\* the 8 slots of a deck; aggregation does not depend on slot order
SlotChoices == {s \in [1..NumSlots -> 1..NumInst] : NonDecreasing(s)}

FixedInstances == << InstanceRow(1, F(9), NULL), InstanceRow(2, F(14), F(1)) >>

\* deck 1 is complete, deck 2 references instance 3, which has no row,
\* deck 3 has no row in the decks table
FixedDecks ==
    << [deck_hash |-> 1, slots |-> <<1, 1, 1, 1, 2, 2, 2, 2>>],
       [deck_hash |-> 2, slots |-> <<1, 1, 2, 2, 2, 3, 3, 3>>] >>

\* stores that vary the matches
MatchStores ==
    {[exists |-> TRUE, battles |-> b, decks |-> FixedDecks,
      card_instances |-> FixedInstances, card_metadata |-> CardMetadata] :
        b \in BattleTables}

\* stores that vary one deck and the card instances
DeckStores ==
    {[exists |-> TRUE,
      battles |-> << BattleRow(1, 0) >>,
      decks |-> << [deck_hash |-> 1, slots |-> s],
                   [deck_hash |-> 2, slots |-> [i \in 1..NumSlots |-> 1]] >>,
      card_instances |-> t, card_metadata |-> CardMetadata] :
        s \in SlotChoices, t \in InstanceTables}

Stores == MatchStores \cup DeckStores

\* stores of the runs of analyze_clusters, which reads no match
AnalysisStores ==
    {[exists |-> TRUE, battles |-> <<>>, decks |-> FixedDecks,
      card_instances |-> t, card_metadata |-> CardMetadata] :
        t \in InstanceTables}

\* what cluster_decks may return: deck hash -> cluster id in [0, NUM_CLUSTERS)
ClusterResults ==
    {[d \in S |-> (d - 1) % NUM_CLUSTERS] : S \in SUBSET DeckHashes}

-----------------------------------------------------------------------------
(* STEP 2: deck level features *)

\* decks_df.melt(id_vars=['deck_hash'], value_vars=card_instance_cols)
Melt(df) ==
    [k \in 1..(NumSlots * Len(df)) |->
        LET i == ((k - 1) \div Len(df)) + 1
            r == df[((k - 1) % Len(df)) + 1]
        IN [deck_hash |-> r.deck_hash, instance_hash |-> r.slots[i]]]

\* pd.merge(left, right, left_on=lk, right_on=rk): inner join, one row per
\* matching pair, in the order of the left rows
InnerJoin(left, right, lk, rk) ==
    Flatten([k \in DOMAIN left |->
        LET hit == SelectSeq(right, LAMBDA r : r[rk] = left[k][lk])
        IN [j \in DOMAIN hit |-> left[k] @@ hit[j]]])

\* pd.merge(decks_long_df, card_instances_df, on='instance_hash')
MergeInstances(long, inst) ==
    InnerJoin(long, inst, "instance_hash", "instance_hash")

RECURSIVE RatSum(_)
RatSum(s) ==
    IF s = <<>> THEN <<0, 1>>
    ELSE LET a == Head(s)
             b == RatSum(Tail(s))
         IN Rat(a[1] * b[2] + b[1] * a[2], a[2] * b[2])

\* the 'mean' aggregation: NaN cells are skipped, NaN if none is left
Mean(cells) ==
    LET obs == SelectSeq(cells, LAMBDA c : ~IsNull(c))
        t == RatSum(obs)
    IN IF obs = <<>> THEN NULL ELSE Rat(t[1], t[2] * Len(obs))

\* a 'size' aggregation in place of 'count': null cells are counted too
CountAll(cells) == Len(cells)

\* the 'count' aggregation: the number of non-null cells
Count(cells) == Len(SelectSeq(cells, LAMBDA c : ~IsNull(c)))

\* decks_with_details_df.groupby('deck_hash').agg(...), indexed by deck_hash
GroupByDeck(details) ==
    [d \in {r.deck_hash : r \in Range(details)} |->
        LET rows == SelectSeq(details, LAMBDA r : r.deck_hash = d)
        IN [avg_card_level |-> Mean([k \in DOMAIN rows |-> rows[k].level]),
            evolution_count |->
                Count([k \in DOMAIN rows |-> rows[k].evolution_level])]]

DeckFeatures(decks, inst) == GroupByDeck(MergeInstances(Melt(decks), inst))

-----------------------------------------------------------------------------
(* Label engine and feature assembly *)

\* the draw filter left out
DrawFilterKeepAll(df) == df

\* battles_df[battles_df['player_a_crowns'] != battles_df['player_b_crowns']]
DrawFilter(df) ==
    SelectSeq(df, LAMBDA r : r.player_a_crowns # r.player_b_crowns)

\* the comparison the wrong way round
LabelSwapped(r) == IF r.player_a_crowns < r.player_b_crowns THEN 1 ELSE 0

\* (player_a_crowns > player_b_crowns).astype(int)
Label(r) == IF r.player_a_crowns > r.player_b_crowns THEN 1 ELSE 0

AddLabel(df) ==
    [k \in DOMAIN df |-> [player_a_wins |-> Label(df[k])] @@ df[k]]

\* a lookup with a default cluster, as in m.get(d, 0)
MapLookupDefault(m, d) == IF d \in DOMAIN m THEN F(m[d]) ELSE F(0)

\* Series.map(dict): NaN where the key is not in the dict
MapLookup(m, d) == IF d \in DOMAIN m THEN F(m[d]) ELSE NULL

AddArchetypes(df, m) ==
    [k \in DOMAIN df |->
        [player_a_archetype |-> MapLookup(m, df[k].player_a_deck_hash),
         player_b_archetype |-> MapLookup(m, df[k].player_b_deck_hash)] @@ df[k]]

\* dropna(subset=['player_a_archetype', 'player_b_archetype'])
DropUnmapped(df) ==
    SelectSeq(df, LAMBDA r : ~IsNull(r.player_a_archetype)
                             /\ ~IsNull(r.player_b_archetype))

\* astype(int) of a float cell
AsInt(c) == c[1] \div c[2]

ArchetypesAsInt(df) ==
    [k \in DOMAIN df |->
        [player_a_archetype |-> AsInt(df[k].player_a_archetype),
         player_b_archetype |-> AsInt(df[k].player_b_archetype)] @@ df[k]]

\* pd.merge(battles_df, deck_features_df, left_on=..., right_index=True,
\* how='left'): the index of deck_features_df is unique, so every battle row
\* gives one row; the added cells are NaN where the deck has no feature row
FeatureCell(feat, d, col) ==
    IF d \notin DOMAIN feat THEN NULL
    ELSE IF col = "avg_card_level" THEN feat[d].avg_card_level
    ELSE F(feat[d].evolution_count)

JoinA(df, feat) ==
    [k \in DOMAIN df |->
        [player_a_avg_card_level |->
            FeatureCell(feat, df[k].player_a_deck_hash, "avg_card_level"),
         player_a_evolution_count |->
            FeatureCell(feat, df[k].player_a_deck_hash, "evolution_count")]
        @@ df[k]]

JoinB(df, feat) ==
    [k \in DOMAIN df |->
        [player_b_avg_card_level |->
            FeatureCell(feat, df[k].player_b_deck_hash, "avg_card_level"),
         player_b_evolution_count |->
            FeatureCell(feat, df[k].player_b_deck_hash, "evolution_count")]
        @@ df[k]]

\* battles_df[feature_cols] of one row, in the order of feature_cols
FeatureRow(r) ==
    << r.player_a_starting_trophies, r.player_b_starting_trophies,
       r.player_a_king_tower_hit_points, r.player_b_king_tower_hit_points,
       F(r.player_a_archetype), F(r.player_b_archetype),
       r.player_a_avg_card_level, r.player_a_evolution_count,
       r.player_b_avg_card_level, r.player_b_evolution_count >>

NumFeatures == 10

HasNull(row) == \E c \in DOMAIN row : IsNull(row[c])

\* the dropna left out: rows with a missing cell reach the imputer
DropNaKeepAll(df) == df

\* battles_df.dropna(subset=feature_cols, inplace=True)
DropNa(df) == SelectSeq(df, LAMBDA r : ~HasNull(FeatureRow(r)))

\* SimpleImputer(strategy='median').fit: one statistic per column
Statistic(M, c) ==
    LET obs == SelectSeq([k \in DOMAIN M |-> M[k][c]], LAMBDA v : ~IsNull(v))
    IN IF obs = <<>> THEN NULL ELSE Median(obs)

\* SimpleImputer.transform: a column with no observed value is dropped,
\* a missing cell of any other column gets the column's statistic
Impute(M) ==
    LET all == [c \in 1..NumFeatures |-> c]
        keep == SelectSeq(all, LAMBDA c : ~IsNull(Statistic(M, c)))
    IN [k \in DOMAIN M |->
           [j \in DOMAIN keep |->
               IF IsNull(M[k][keep[j]]) THEN Statistic(M, keep[j])
               ELSE M[k][keep[j]]]]

-----------------------------------------------------------------------------
(* Files *)

NoFile == [state |-> "absent", data |-> <<>>]
Partial == [state |-> "partial", data |-> <<>>]
Saved(a) == [state |-> "written", data |-> a]

-----------------------------------------------------------------------------
(* run_clustering.main *)

Init ==
    /\ \/ pc = "rc_check_db" /\ db \in Stores \cup {NoDb}
       \/ pc = "ac_check_db" /\ db \in AnalysisStores \cup {NoDb}
    /\ error = "none"
    /\ deck_to_cluster_map = <<>>
    /\ conn = "None"
    /\ battles_df = <<>>
    /\ decks_df = <<>>
    /\ card_instances_df = <<>>
    /\ card_metadata_df = <<>>
    /\ deck_features_df = <<>>
    /\ X = <<>>
    /\ y = <<>>
    /\ X_imputed = <<>>
    /\ files = [X |-> NoFile, y |-> NoFile]
    /\ master_df = <<>>
    /\ card_counts = <<>>

frames == <<battles_df, decks_df, card_instances_df, card_metadata_df,
            deck_features_df, X, y, X_imputed, master_df, card_counts>>

\* if not os.path.exists(DB_PATH): print, return
RcCheckDb ==
    /\ pc = "rc_check_db"
    /\ IF db.exists
       THEN pc' = "rc_cluster" /\ error' = error
       ELSE pc' = "returned" /\ error' = "db_not_found"
    /\ UNCHANGED <<db, deck_to_cluster_map, conn, files, frames>>

\* STEP 0: the native call raises, returns an empty dict, or returns a mapping
RcCluster ==
    /\ pc = "rc_cluster"
    /\ \/ /\ pc' = "returned"
          /\ error' = "clustering_error"
          /\ UNCHANGED deck_to_cluster_map
       \/ \E m \in ClusterResults :
             /\ deck_to_cluster_map' = m
             /\ IF DOMAIN m = {}
                THEN pc' = "returned" /\ error' = "clustering_empty"
                ELSE pc' = "rc_connect" /\ error' = error
    /\ UNCHANGED <<db, conn, files, frames>>

\* conn = sqlite3.connect(DB_PATH), which may raise
RcConnect ==
    /\ pc = "rc_connect"
    /\ \/ conn' = "open" /\ pc' = "rc_read_battles" /\ error' = error
       \/ conn' = conn /\ pc' = "rc_finally" /\ error' = "load_failed"
    /\ UNCHANGED <<db, deck_to_cluster_map, files, frames>>

RcReadBattles ==
    /\ pc = "rc_read_battles"
    /\ \/ battles_df' = db.battles /\ pc' = "rc_read_decks" /\ error' = error
       \/ battles_df' = battles_df /\ pc' = "rc_finally" /\ error' = "load_failed"
    /\ UNCHANGED <<db, deck_to_cluster_map, conn, files, decks_df,
                   card_instances_df, card_metadata_df, deck_features_df, X, y,
                   X_imputed, master_df, card_counts>>

RcReadDecks ==
    /\ pc = "rc_read_decks"
    /\ \/ decks_df' = db.decks /\ pc' = "rc_read_instances" /\ error' = error
       \/ decks_df' = decks_df /\ pc' = "rc_finally" /\ error' = "load_failed"
    /\ UNCHANGED <<db, deck_to_cluster_map, conn, files, battles_df,
                   card_instances_df, card_metadata_df, deck_features_df, X, y,
                   X_imputed, master_df, card_counts>>

RcReadInstances ==
    /\ pc = "rc_read_instances"
    /\ \/ /\ card_instances_df' = db.card_instances
          /\ pc' = "rc_finally" /\ error' = error
       \/ /\ card_instances_df' = card_instances_df
          /\ pc' = "rc_finally" /\ error' = "load_failed"
    /\ UNCHANGED <<db, deck_to_cluster_map, conn, files, battles_df, decks_df,
                   card_metadata_df, deck_features_df, X, y, X_imputed,
                   master_df, card_counts>>

\* the close at the end of the try body instead of in a finally clause
RcFinallyCloseOnSuccess ==
    /\ pc = "rc_finally"
    /\ conn' = IF conn = "open" /\ error = "none" THEN "closed" ELSE conn
    /\ pc' = IF error = "none" THEN "rc_deck_features" ELSE "returned"
    /\ UNCHANGED <<db, error, deck_to_cluster_map, files, frames>>

\* finally: if conn: conn.close(); then the pending return of the except
\* clause, or the statement after the try
RcFinally ==
    /\ pc = "rc_finally"
    /\ conn' = IF conn = "open" THEN "closed" ELSE conn
    /\ pc' = IF error = "none" THEN "rc_deck_features" ELSE "returned"
    /\ UNCHANGED <<db, error, deck_to_cluster_map, files, frames>>

\* NEW STEP 2
RcDeckFeatures ==
    /\ pc = "rc_deck_features"
    /\ deck_features_df' = DeckFeatures(decks_df, card_instances_df)
    /\ pc' = "rc_label"
    /\ UNCHANGED <<db, error, deck_to_cluster_map, conn, files, battles_df,
                   decks_df, card_instances_df, card_metadata_df, X, y,
                   X_imputed, master_df, card_counts>>

others == <<decks_df, card_instances_df, card_metadata_df, deck_features_df,
            master_df, card_counts>>

\* the target variable
RcLabel ==
    /\ pc = "rc_label"
    /\ battles_df' = AddLabel(DrawFilter(battles_df))
    /\ pc' = "rc_archetype"
    /\ UNCHANGED <<db, error, deck_to_cluster_map, conn, files, X, y,
                   X_imputed, others>>

\* the archetype ids
RcArchetype ==
    /\ pc = "rc_archetype"
    /\ battles_df' =
          ArchetypesAsInt(DropUnmapped(AddArchetypes(battles_df, deck_to_cluster_map)))
    /\ pc' = "rc_join"
    /\ UNCHANGED <<db, error, deck_to_cluster_map, conn, files, X, y,
                   X_imputed, others>>

\* NEW STEP 3
RcJoin ==
    /\ pc = "rc_join"
    /\ battles_df' = JoinB(JoinA(battles_df, deck_features_df), deck_features_df)
    /\ pc' = "rc_select"
    /\ UNCHANGED <<db, error, deck_to_cluster_map, conn, files, X, y,
                   X_imputed, others>>

\* y taken before the dropna, X after it
RcSelectLabelsFirst ==
    /\ pc = "rc_select"
    /\ battles_df' = DropNa(battles_df)
    /\ X' = [k \in DOMAIN battles_df' |-> FeatureRow(battles_df'[k])]
    /\ y' = [k \in DOMAIN battles_df |-> battles_df[k].player_a_wins]
    /\ pc' = "rc_impute"
    /\ UNCHANGED <<db, error, deck_to_cluster_map, conn, files, X_imputed, others>>

\* NEW STEP 4: dropna, X, y
RcSelect ==
    /\ pc = "rc_select"
    /\ battles_df' = DropNa(battles_df)
    /\ X' = [k \in DOMAIN battles_df' |-> FeatureRow(battles_df'[k])]
    /\ y' = [k \in DOMAIN battles_df' |-> battles_df'[k].player_a_wins]
    /\ pc' = "rc_impute"
    /\ UNCHANGED <<db, error, deck_to_cluster_map, conn, files, X_imputed, others>>

\* imputer.fit_transform(X): input validation raises ValueError on 0 rows
RcImpute ==
    /\ pc = "rc_impute"
    /\ IF Len(X) = 0
       THEN pc' = "crashed" /\ error' = "ValueError" /\ UNCHANGED X_imputed
       ELSE pc' = "rc_save_X" /\ error' = error /\ X_imputed' = Impute(X)
    /\ UNCHANGED <<db, deck_to_cluster_map, conn, files, battles_df, X, y, others>>

\* np.save('X_train.npy', X_imputed): may raise before or while writing
RcSaveX ==
    /\ pc = "rc_save_X"
    /\ \/ /\ files' = [files EXCEPT !.X = Saved(X_imputed)]
          /\ pc' = "rc_save_y" /\ error' = error
       \/ /\ files' \in {files, [files EXCEPT !.X = Partial]}
          /\ pc' = "crashed" /\ error' = "OSError"
    /\ UNCHANGED <<db, deck_to_cluster_map, conn, frames>>

\* np.save('y_train.npy', y.values)
RcSaveY ==
    /\ pc = "rc_save_y"
    /\ \/ /\ files' = [files EXCEPT !.y = Saved(y)]
          /\ pc' = "done" /\ error' = error
       \/ /\ files' \in {files, [files EXCEPT !.y = Partial]}
          /\ pc' = "crashed" /\ error' = "OSError"
    /\ UNCHANGED <<db, deck_to_cluster_map, conn, frames>>

-----------------------------------------------------------------------------
(* analyze_clusters.main *)

RECURSIVE SortedSeq(_)
SortedSeq(S) ==
    IF S = {} THEN <<>>
    ELSE LET m == CHOOSE x \in S : \A z \in S : x <= z
         IN <<m>> \o SortedSeq(S \ {m})

\* pd.DataFrame(list(deck_to_cluster_map.items()), columns=[...])
ClustersDf(m) ==
    LET ds == SortedSeq(DOMAIN m)
    IN [k \in DOMAIN ds |-> [deck_hash |-> ds[k], cluster_id |-> m[ds[k]]]]

\* the three merges of STEP 2
MasterDf(m, decks, inst, meta) ==
    InnerJoin(
        InnerJoin(
            InnerJoin(ClustersDf(m), Melt(decks), "deck_hash", "deck_hash"),
            inst, "instance_hash", "instance_hash"),
        meta, "card_type_id", "id")

\* master_df.groupby('cluster_id')['name'].value_counts()
CardCounts(master) ==
    [c \in {r.cluster_id : r \in Range(master)} |->
        LET rows == SelectSeq(master, LAMBDA r : r.cluster_id = c)
        IN [n \in {r.name : r \in Range(rows)} |->
               Len(SelectSeq(rows, LAMBDA r : r.name = n))]]

AcCheckDb ==
    /\ pc = "ac_check_db"
    /\ IF db.exists
       THEN pc' = "ac_cluster" /\ error' = error
       ELSE pc' = "returned" /\ error' = "db_not_found"
    /\ UNCHANGED <<db, deck_to_cluster_map, conn, files, frames>>

AcCluster ==
    /\ pc = "ac_cluster"
    /\ \/ /\ pc' = "returned"
          /\ error' = "clustering_error"
          /\ UNCHANGED deck_to_cluster_map
       \/ \E m \in ClusterResults :
             /\ deck_to_cluster_map' = m
             /\ IF DOMAIN m = {}
                THEN pc' = "returned" /\ error' = "clustering_empty"
                ELSE pc' = "ac_connect" /\ error' = error
    /\ UNCHANGED <<db, conn, files, frames>>

AcConnect ==
    /\ pc = "ac_connect"
    /\ \/ conn' = "open" /\ pc' = "ac_read_decks" /\ error' = error
       \/ conn' = conn /\ pc' = "ac_finally" /\ error' = "load_failed"
    /\ UNCHANGED <<db, deck_to_cluster_map, files, frames>>

AcReadDecks ==
    /\ pc = "ac_read_decks"
    /\ \/ decks_df' = db.decks /\ pc' = "ac_read_instances" /\ error' = error
       \/ decks_df' = decks_df /\ pc' = "ac_finally" /\ error' = "load_failed"
    /\ UNCHANGED <<db, deck_to_cluster_map, conn, files, battles_df,
                   card_instances_df, card_metadata_df, deck_features_df, X, y,
                   X_imputed, master_df, card_counts>>

AcReadInstances ==
    /\ pc = "ac_read_instances"
    /\ \/ /\ card_instances_df' = db.card_instances
          /\ pc' = "ac_read_metadata" /\ error' = error
       \/ /\ card_instances_df' = card_instances_df
          /\ pc' = "ac_finally" /\ error' = "load_failed"
    /\ UNCHANGED <<db, deck_to_cluster_map, conn, files, battles_df, decks_df,
                   card_metadata_df, deck_features_df, X, y, X_imputed,
                   master_df, card_counts>>

AcReadMetadata ==
    /\ pc = "ac_read_metadata"
    /\ \/ /\ card_metadata_df' = db.card_metadata
          /\ pc' = "ac_finally" /\ error' = error
       \/ /\ card_metadata_df' = card_metadata_df
          /\ pc' = "ac_finally" /\ error' = "load_failed"
    /\ UNCHANGED <<db, deck_to_cluster_map, conn, files, battles_df, decks_df,
                   card_instances_df, deck_features_df, X, y, X_imputed,
                   master_df, card_counts>>

AcFinally ==
    /\ pc = "ac_finally"
    /\ conn' = IF conn = "open" THEN "closed" ELSE conn
    /\ pc' = IF error = "none" THEN "ac_merge" ELSE "returned"
    /\ UNCHANGED <<db, error, deck_to_cluster_map, files, frames>>

\* STEP 2
AcMerge ==
    /\ pc = "ac_merge"
    /\ master_df' = MasterDf(deck_to_cluster_map, decks_df, card_instances_df,
                             card_metadata_df)
    /\ pc' = "ac_count"
    /\ UNCHANGED <<db, error, deck_to_cluster_map, conn, files, battles_df,
                   decks_df, card_instances_df, card_metadata_df,
                   deck_features_df, X, y, X_imputed, card_counts>>

\* STEP 3, then STEP 4, which only prints
AcCount ==
    /\ pc = "ac_count"
    /\ card_counts' = CardCounts(master_df)
    /\ pc' = "done"
    /\ UNCHANGED <<db, error, deck_to_cluster_map, conn, files, battles_df,
                   decks_df, card_instances_df, card_metadata_df,
                   deck_features_df, X, y, X_imputed, master_df>>

Next ==
    \/ RcCheckDb \/ RcCluster \/ RcConnect
    \/ RcReadBattles \/ RcReadDecks \/ RcReadInstances \/ RcFinally
    \/ RcDeckFeatures \/ RcLabel \/ RcArchetype \/ RcJoin \/ RcSelect
    \/ RcImpute \/ RcSaveX \/ RcSaveY
    \/ AcCheckDb \/ AcCluster \/ AcConnect
    \/ AcReadDecks \/ AcReadInstances \/ AcReadMetadata \/ AcFinally
    \/ AcMerge \/ AcCount

Spec == Init /\ [][Next]_vars

-----------------------------------------------------------------------------
(* Vocabulary of the properties *)

\* both artifacts were written by this run
Written == files.X.state = "written" /\ files.y.state = "written"

\* statements of run_clustering.main after the target variable is made
RcAfterLabel ==
    {"rc_archetype", "rc_join", "rc_select", "rc_impute", "rc_save_X",
     "rc_save_y", "crashed"}

\* statements of run_clustering.main after the deck feature table is built
RcAfterFeatures == RcAfterLabel \cup {"rc_label"}

\* statements of either main after its try / except / finally
AfterReadPhase ==
    RcAfterFeatures \cup {"rc_deck_features", "ac_merge", "ac_count",
                          "done", "returned"}

\* the ids of the rows battles_df holds
FrameIds == {battles_df[k].id : k \in DOMAIN battles_df}

\* the row of the battles table with primary key id
Match(id) == db.battles[id]

MatchIds == IF db.exists THEN DOMAIN db.battles ELSE {}

Drawn(m) == m.player_a_crowns = m.player_b_crowns

Mapped(m) ==
    /\ m.player_a_deck_hash \in DOMAIN deck_to_cluster_map
    /\ m.player_b_deck_hash \in DOMAIN deck_to_cluster_map

Featured(m) ==
    /\ m.player_a_deck_hash \in DOMAIN deck_features_df
    /\ m.player_b_deck_hash \in DOMAIN deck_features_df

MissingCovariate(m) ==
    \/ IsNull(m.player_a_starting_trophies)
    \/ IsNull(m.player_b_starting_trophies)
    \/ IsNull(m.player_a_king_tower_hit_points)
    \/ IsNull(m.player_b_king_tower_hit_points)

\* the feature cells the match must show in the matrix
ExpectedRow(m) ==
    << m.player_a_starting_trophies, m.player_b_starting_trophies,
       m.player_a_king_tower_hit_points, m.player_b_king_tower_hit_points,
       F(deck_to_cluster_map[m.player_a_deck_hash]),
       F(deck_to_cluster_map[m.player_b_deck_hash]),
       deck_features_df[m.player_a_deck_hash].avg_card_level,
       F(deck_features_df[m.player_a_deck_hash].evolution_count),
       deck_features_df[m.player_b_deck_hash].avg_card_level,
       F(deck_features_df[m.player_b_deck_hash].evolution_count) >>

\* the instance rows a slot reference resolves to
Resolved(h) == SelectSeq(card_instances_df, LAMBDA r : r.instance_hash = h)

\* the slots of deck row d whose reference resolves
ResolvedSlots(d) == {i \in 1..NumSlots : Resolved(d.slots[i]) # <<>>}

-----------------------------------------------------------------------------
(* C1 *)

\* C1: no match whose participant-A crown count equals its participant-B
\* crown count is in the label-filtered frame, at any later statement of the
\* run, and the saved matrix and label vector have one row per row of that
\* frame, so none is in the saved dataset.
C1_NoDrawSurvives ==
    /\ (pc \in RcAfterLabel \/ Written) =>
          \A id \in MatchIds : Drawn(Match(id)) => id \notin FrameIds
    /\ Written =>
          /\ Len(files.X.data) = Len(battles_df)
          /\ Len(files.y.data) = Len(battles_df)

C1_Witness ==
    /\ Written
    /\ \E id \in MatchIds : Drawn(Match(id))
    /\ Len(files.X.data) >= 1

(* C2 *)

\* C2: every row that survived the draw filter carries label 1 if and only
\* if participant A's crowns strictly exceed participant B's, 0 otherwise,
\* and entry k of the saved label vector is the label of the match whose
\* features are row k of the saved matrix.
C2_LabelMatchesCrowns ==
    /\ (pc \in RcAfterLabel \/ Written) =>
          \A k \in DOMAIN battles_df :
             LET m == Match(battles_df[k].id)
             IN /\ battles_df[k].player_a_wins \in {0, 1}
                /\ battles_df[k].player_a_wins = 1
                      <=> m.player_a_crowns > m.player_b_crowns
    /\ Written =>
          \A k \in DOMAIN files.y.data :
             LET m == Match(battles_df[k].id)
             IN /\ files.X.data[k] = ExpectedRow(m)
                /\ files.y.data[k] =
                      (IF m.player_a_crowns > m.player_b_crowns THEN 1 ELSE 0)

C2_Witness ==
    /\ Written
    /\ \E j, k \in DOMAIN files.y.data :
          /\ files.y.data[j] = 1
          /\ files.y.data[k] = 0
          /\ files.X.data[j] # files.X.data[k]

(* C3 *)

Qualifies(m) == ~Drawn(m) /\ Mapped(m) /\ Featured(m)

NoDuplicateRow == Cardinality(FrameIds) = Len(battles_df)

\* C3 as stated: the written dataset holds exactly one row for each
\* non-drawn match with an archetype and a deck feature row for both of its
\* decks, and no other row.
C3_Original ==
    Written =>
       /\ FrameIds = {id \in MatchIds : Qualifies(Match(id))}
       /\ NoDuplicateRow
       /\ Len(files.X.data) = Len(battles_df)

\* C3 amended: the written dataset holds exactly one row for each non-drawn
\* match that has an archetype and a deck feature row for both of its decks
\* and no missing value in any selected feature column, and no other row.
C3_OneRowPerCompleteMatch ==
    Written =>
       /\ FrameIds = {id \in MatchIds :
                         /\ Qualifies(Match(id))
                         /\ ~HasNull(ExpectedRow(Match(id)))}
       /\ NoDuplicateRow
       /\ Len(files.X.data) = Len(battles_df)

C3_Witness ==
    /\ Written
    /\ Len(files.X.data) = 1
    /\ \E id \in MatchIds : Drawn(Match(id))
    /\ \E id \in MatchIds : Qualifies(Match(id)) /\ id \in FrameIds

(* C4 *)

\* C4 as stated: when the mapping is non-empty and lacks a deck of some
\* match, the match is left out of the final matrix and the run goes on to
\* assemble the dataset from the remaining matches: it does not abort in the
\* assembly (a failing artifact write is another matter).  Stated for stores
\* where no match has a missing covariate, so that the missing archetype is
\* what removes the match.
C4_ExclusionNonFatal ==
    (/\ DOMAIN deck_to_cluster_map # {}
     /\ \E id \in MatchIds : ~Drawn(Match(id)) /\ ~Mapped(Match(id))
     /\ \A id \in MatchIds : ~MissingCovariate(Match(id))) =>
       /\ pc \in {"rc_join", "rc_select", "rc_impute", "rc_save_X",
                  "rc_save_y", "crashed"} \/ Written =>
             \A id \in MatchIds : ~Mapped(Match(id)) => id \notin FrameIds
       /\ ~(pc = "crashed" /\ error = "ValueError")

(* C5 *)

\* C5 as stated: the deck feature table has exactly one row for each deck
\* whose 8 instance references all resolve, and no row for a deck with an
\* unresolvable reference.
C5_OnlyCompleteDecks ==
    pc \in RcAfterFeatures =>
       DOMAIN deck_features_df =
          {decks_df[k].deck_hash : k \in
              {j \in DOMAIN decks_df :
                  ResolvedSlots(decks_df[j]) = 1..NumSlots}}

(* C6 *)

\* C6 as stated: at the end of every run either both X_train.npy and
\* y_train.npy were written by the run or neither file was touched.
C6_BothOrNeither ==
    pc \in {"done", "returned", "crashed"} =>
       \/ Written
       \/ files.X = NoFile /\ files.y = NoFile

(* C7 *)

\* C7 as stated: a non-drawn match with both archetypes and both deck
\* feature rows and a missing covariate is kept, its missing cell replaced
\* by a value, and the saved matrix has no missing value.
C7_Original ==
    Written =>
       /\ \A id \in MatchIds :
             (Qualifies(Match(id)) /\ MissingCovariate(Match(id))) =>
                \E k \in DOMAIN battles_df :
                   /\ battles_df[k].id = id
                   /\ ~HasNull(files.X.data[k])
       /\ \A k \in DOMAIN files.X.data : ~HasNull(files.X.data[k])

\* C7 amended: every row with a missing value in a selected feature column
\* is dropped before the imputer runs, so the median imputation replaces
\* nothing and returns the surviving rows unchanged; a match with a missing
\* covariate is not kept, and the saved matrix has no missing value.
C7_DroppedBeforeImputation ==
    /\ pc \in {"rc_impute", "rc_save_X", "rc_save_y"} \/ Written =>
          \A k \in DOMAIN X : ~HasNull(X[k])
    /\ pc \in {"rc_save_X", "rc_save_y"} \/ Written => X_imputed = X
    /\ Written =>
          /\ files.X.data = X
          /\ \A k \in DOMAIN files.X.data : ~HasNull(files.X.data[k])
          /\ \A id \in MatchIds :
                MissingCovariate(Match(id)) => id \notin FrameIds

C7_Witness ==
    /\ Written
    /\ Len(files.X.data) >= 1
    /\ \E id \in MatchIds :
          /\ Qualifies(Match(id))
          /\ MissingCovariate(Match(id))
          /\ id \notin FrameIds

(* C8 *)

\* C8: from the selection of X and y on, and in the files when both are
\* written, the feature matrix has as many rows as the label vector has
\* entries.
C8_RowsEqualLabels ==
    /\ pc \in {"rc_impute", "rc_save_X", "rc_save_y"} => Len(X) = Len(y)
    /\ pc \in {"rc_save_X", "rc_save_y"} => Len(X_imputed) = Len(y)
    /\ Written => Len(files.X.data) = Len(files.y.data)

C8_Witness ==
    /\ Written
    /\ Len(files.y.data) >= 1
    /\ Len(files.y.data) < Cardinality(MatchIds)

(* C9 *)

\* the resolved instances of deck row d whose evolution level is present
EvolvedSlots(d) ==
    {i \in ResolvedSlots(d) :
        ~IsNull(Resolved(d.slots[i])[1].evolution_level)}

\* C9: every row of the deck feature table has an evolution_count in 0..8
\* that equals the number of the deck's resolved card instances whose
\* evolution level is present.
C9_EvolutionCount ==
    pc \in RcAfterFeatures =>
       \A k \in DOMAIN decks_df :
          decks_df[k].deck_hash \in DOMAIN deck_features_df =>
             LET n == deck_features_df[decks_df[k].deck_hash].evolution_count
             IN /\ n \in 0..NumSlots
                /\ n = Cardinality(EvolvedSlots(decks_df[k]))

C9_Witness ==
    /\ pc = "rc_label"
    /\ \E k \in DOMAIN decks_df :
          /\ decks_df[k].deck_hash \in DOMAIN deck_features_df
          /\ deck_features_df[decks_df[k].deck_hash].evolution_count \in 1..7
          /\ Cardinality(ResolvedSlots(decks_df[k])) = NumSlots

(* C10 *)

\* C10: at every statement after the try / except / finally of the read
\* phase, and at every end of a run, the connection is not open.
C10_ConnectionClosed == pc \in AfterReadPhase => conn # "open"

C10_Witness == pc = "returned" /\ error = "load_failed" /\ conn = "closed"

====
